---- MODULE Spec2Model ----
(***************************************************************************)
(* Quiz session engine of wlingo (src/src/main.py): vocabulary loading,    *)
(* question generation, the process-wide session store with lazy expiry    *)
(* and the request handlers that navigate, record answers and score.       *)
(*                                                                         *)
(* Every handler is an `async def` without an await in its body, so on the *)
(* event loop each handler body runs to completion before another starts:  *)
(* one action per handler.  What a handler returns is a function of the    *)
(* store and of the request; it is the operator named after the handler,   *)
(* and the action of the handler is what the request does to the store.    *)
(* Requests that are in flight at the same time are the `inflight` group   *)
(* of SpecConc.                                                            *)
(*                                                                         *)
(* The earlier iteration of the quiz (src/main.py), with one word list and   *)
(* one quiz under a fixed key, is modelled beside it in SpecEarlier; its    *)
(* state is ALL_WORDS and user_sessions.                                    *)
(*                                                                         *)
(* Topic keys are sequences of character codes, because get_topics orders   *)
(* topics by a display name derived from the key.  Words and translations  *)
(* are strings; only equality is ever applied to them.                     *)
(***************************************************************************)
EXTENDS Integers, Sequences, FiniteSets, TLC

VARIABLES
    vocab_sets,   \* VocabularyManager.vocab_sets: sequence of [key, words], insertion order
    sessions,     \* the global sessions dict: session id -> SessionData
    now,          \* datetime.now(), in minutes
    issued,       \* number of uuid4 ids handed out so far
    accepted,     \* history: session id -> sequence of question indices whose submission succeeded
    drawn,        \* history: session id -> positions of the pool drawn by random.sample
    created,      \* history: session id -> the questions as start_quiz_session stored them
    inflight,     \* submit_answer requests received together and not yet handled
    outcomes,     \* the responses to the requests of that group handled so far
    ALL_WORDS,    \* earlier iteration (src/main.py): the rows of words.csv
    user_sessions,\* earlier iteration: the user_sessions dict, SESSION_ID -> session dict
    shown         \* history: the first question page of the current quiz of the earlier iteration

vars == <<vocab_sets, sessions, now, issued, accepted, drawn, created, inflight, outcomes,
          ALL_WORDS, user_sessions, shown>>

---------------------------------------------------------------------------
(* Bounds of the model *)

MaxSessions == 2      \* uuid4 ids handed out in one behaviour
MaxNow == 240         \* the clock stops here
TickStep == 120       \* minutes between two observations of the clock
MaxInflight == 2      \* submit_answer requests in flight together
MaxDraw == 1          \* largest value the random source returns to shuffle

---------------------------------------------------------------------------
(* Settings *)

\* Settings.TEST_SIZE is 15 in the shipped configuration; the model runs the
\* same code with a configured size of 2, so that pools smaller than, equal
\* to and larger than the configured size are all enumerable.
TEST_SIZE == 2

SESSION_TIMEOUT_MINUTES == 120

num_options == 3

---------------------------------------------------------------------------
(* Generic helpers *)

Min(a, b) == IF a < b THEN a ELSE b

Range(s) == {s[i] : i \in DOMAIN s}

\* all orderings of k distinct elements of S: random.sample(list(S), k), and list(S) for k = |S|
Samples(S, k) == {s \in [1..k -> S] : \A i, j \in 1..k : i # j => s[i] # s[j]}

RECURSIVE CountEq(_, _)
CountEq(s, x) ==
    IF s = <<>> THEN 0
    ELSE (IF Head(s) = x THEN 1 ELSE 0) + CountEq(Tail(s), x)

\* Python's list[index]: a negative index counts from the end of the list,
\* and an index outside -len..len-1 raises IndexError
PyIndexable(list, index) == -Len(list) <= index /\ index < Len(list)

PyAt(list, index) == IF index < 0 THEN list[Len(list) + index + 1] ELSE list[index + 1]

---------------------------------------------------------------------------
(* Strings of the vocabulary directory.  A topic key is the CSV file's base *)
(* name, written as its character codes.                                   *)

IsUpper(c) == c >= 65 /\ c <= 90
IsLower(c) == c >= 97 /\ c <= 122
IsCased(c) == IsUpper(c) \/ IsLower(c)

\* key.replace("_", " ")
ReplaceUnderscore(key) == [i \in DOMAIN key |-> IF key[i] = 95 THEN 32 ELSE key[i]]

\* str.title(): a cased character that follows an uncased one (or starts the
\* string) is upper-cased, every other cased character is lower-cased
Title(s) ==
    [i \in DOMAIN s |->
        IF ~IsCased(s[i]) THEN s[i]
        ELSE IF i = 1 \/ ~IsCased(s[i - 1])
             THEN (IF IsLower(s[i]) THEN s[i] - 32 ELSE s[i])
             ELSE (IF IsUpper(s[i]) THEN s[i] + 32 ELSE s[i])]

DisplayName(key) == Title(ReplaceUnderscore(key))

\* Python's str ordering: by code point, a proper prefix first
RECURSIVE StrLess(_, _)
StrLess(a, b) ==
    IF b = <<>> THEN FALSE
    ELSE IF a = <<>> THEN TRUE
    ELSE IF Head(a) # Head(b) THEN Head(a) < Head(b)
    ELSE StrLess(Tail(a), Tail(b))

\* "default_dummy"
DefaultDummy == <<100, 101, 102, 97, 117, 108, 116, 95, 100, 117, 109, 109, 121>>

DummyWords ==
    << [word |-> "Hund", translation |-> "dog"],
       [word |-> "Katze", translation |-> "cat"],
       [word |-> "Baum", translation |-> "tree"],
       [word |-> "Haus", translation |-> "house"],
       [word |-> "Wasser", translation |-> "water"] >>

---------------------------------------------------------------------------
(* VocabularyManager *)

\* dict assignment vocab_sets[key] = words: a new key goes last, an old key keeps its place
DictSet(d, key, words) ==
    IF \E i \in DOMAIN d : d[i].key = key
    THEN [i \in DOMAIN d |-> IF d[i].key = key THEN [key |-> key, words |-> words] ELSE d[i]]
    ELSE Append(d, [key |-> key, words |-> words])

\* the loop of load_all over glob's files; a file that cannot be read or lacks
\* the word/translation columns is skipped
RECURSIVE LoadFiles(_, _)
LoadFiles(files, d) ==
    IF files = <<>> THEN d
    ELSE LoadFiles(Tail(files),
                   IF Head(files).readable /\ Head(files).columns
                   THEN DictSet(d, Head(files).name, Head(files).rows)
                   ELSE d)

\* load_all on a directory [exists, files]
load_all(dir) ==
    IF ~dir.exists THEN <<>>
    ELSE LET loaded == LoadFiles(dir.files, <<>>)
         IN  IF loaded = <<>>
             THEN <<[key |-> DefaultDummy, words |-> DummyWords]>>
             ELSE loaded

\* load_all creates a missing directory, so the next load finds it empty
AfterMakedirs(dir) == IF dir.exists THEN dir ELSE [exists |-> TRUE, files |-> <<>>]

\* VocabularyManager(...) at import, then startup_event's load_all
LoadedAtStartup(dir) == load_all(AfterMakedirs(dir))

get_words(vs, topic) ==
    IF \E i \in DOMAIN vs : vs[i].key = topic
    THEN vs[CHOOSE i \in DOMAIN vs : vs[i].key = topic].words
    ELSE <<>>

\* list.sort(key=name) is stable: insertion into a sorted list after every
\* element that is not greater
RECURSIVE InsertByName(_, _)
InsertByName(sorted, t) ==
    IF sorted = <<>> THEN <<t>>
    ELSE IF StrLess(t.name, Head(sorted).name) THEN <<t>> \o sorted
    ELSE <<Head(sorted)>> \o InsertByName(Tail(sorted), t)

RECURSIVE SortByName(_, _)
SortByName(todo, sorted) ==
    IF todo = <<>> THEN sorted
    ELSE SortByName(Tail(todo), InsertByName(sorted, Head(todo)))

get_topics(vs) ==
    SortByName([i \in DOMAIN vs |->
                   [id |-> vs[i].key, name |-> DisplayName(vs[i].key), count |-> Len(vs[i].words)]],
               <<>>)

---------------------------------------------------------------------------
(* The random source *)

Swap(x, a, b) == [k \in DOMAIN x |-> IF k = a THEN x[b] ELSE IF k = b THEN x[a] ELSE x[k]]

\* random.shuffle(x): for i = len(x)-1 down to 1, j = randbelow(i+1), swap x[i] and x[j]
\* (0-based); r[i] is the value drawn at step i
RECURSIVE ShuffleFrom(_, _, _)
ShuffleFrom(x, i, r) ==
    IF i < 1 THEN x
    ELSE ShuffleFrom(Swap(x, i + 1, r[i] + 1), i - 1, r)

\* the draws the random source may return to a shuffle of n elements
ShuffleDraws(n) == {r \in [1..(n - 1) -> 0..Min(n - 1, MaxDraw)] : \A i \in 1..(n - 1) : r[i] <= i}

Shuffles(x) == {ShuffleFrom(x, Len(x) - 1, r) : r \in ShuffleDraws(Len(x))}

---------------------------------------------------------------------------
(* QuizGenerator *)

\* while len(incorrect) < num_options: incorrect.append(f"Option {len(incorrect)+1}")
RECURSIVE PadOptions(_)
PadOptions(incorrect) ==
    IF Len(incorrect) < num_options
    THEN PadOptions(Append(incorrect, "Option " \o ToString(Len(incorrect) + 1)))
    ELSE incorrect

\* QuizGenerator._generate_options: every list of options the call can return
_generate_options(correct_translation, all_words) ==
    LET all_translations == {all_words[i].translation : i \in DOMAIN all_words} \ {correct_translation}
        incorrects ==
            IF Cardinality(all_translations) < num_options
            THEN {PadOptions(l) : l \in Samples(all_translations, Cardinality(all_translations))}
            ELSE Samples(all_translations, num_options)
    IN  UNION {Shuffles(<<correct_translation>> \o incorrect) : incorrect \in incorrects}

\* the Question objects built for the selected positions, in order
RECURSIVE QuestionsFor(_, _)
QuestionsFor(selected, word_list) ==
    IF selected = <<>> THEN {<<>>}
    ELSE LET item == word_list[Head(selected)]
         IN  {<<[word |-> item.word, translation |-> item.translation, options |-> o]>> \o rest :
                 o \in _generate_options(item.translation, word_list),
                 rest \in QuestionsFor(Tail(selected), word_list)}

\* a draw that may take a position of word_list again
SelectedWords_replace(word_list, count) ==
    [1..Min(count, Len(word_list)) -> DOMAIN word_list]

\* random.sample(word_list, min(count, len(word_list))), as positions of word_list
SelectedWords(word_list, count) ==
    Samples(DOMAIN word_list, Min(count, Len(word_list)))

\* RandomQuizGenerator.generate: every [selected, questions] the call can produce
generate(vs, topic, count) ==
    LET word_list == get_words(vs, topic)
    IN  IF word_list = <<>> THEN {[selected |-> <<>>, questions |-> <<>>]}
        ELSE UNION {{[selected |-> sel, questions |-> qs] : qs \in QuestionsFor(sel, word_list)} :
                       sel \in SelectedWords(word_list, count)}

\* QuizFactory.create: the generator class chosen for a mode
QuizFactory_create(mode) ==
    IF mode = "standard" THEN "RandomQuizGenerator" ELSE "RandomQuizGenerator"

---------------------------------------------------------------------------
(* Inputs *)

File(name, readable, columns, rows) ==
    [name |-> name, readable |-> readable, columns |-> columns, rows |-> rows]

\* "z.csv" with two rows
DirPair ==
    [exists |-> TRUE,
     files |-> << File(<<122>>, TRUE, TRUE,
                       << [word |-> "Hund", translation |-> "dog"],
                          [word |-> "Katze", translation |-> "cat"] >>) >>]

\* "z.csv" with one row, "a_b.csv" with the header line only, "q.csv" without a translation column
DirMixed ==
    [exists |-> TRUE,
     files |-> << File(<<122>>, TRUE, TRUE, << [word |-> "Baum", translation |-> "tree"] >>),
                  File(<<97, 95, 98>>, TRUE, TRUE, <<>>),
                  File(<<113>>, TRUE, FALSE, <<>>) >>]

VocabDirs == {DirPair, DirMixed}

\* the topic form field: "z" and the unknown "x"
TopicInputs == {<<122>>, <<120>>}

ModeInputs == {"standard"}

\* the session cookie: an id that start_quiz_session has set, or 0 for a
\* request without the cookie or with a value that is no key of sessions
SessionIdInputs == 0..issued

IndexInputs == -1..TEST_SIZE

OptionInputs == -1..(num_options + 1)

---------------------------------------------------------------------------
(* Session store *)

Remove(f, id) == [s \in DOMAIN f \ {id} |-> f[s]]

Put(f, id, v) == [s \in DOMAIN f \cup {id} |-> IF s = id THEN v ELSE f[s]]

\* a session is dropped already at the timeout
Expired_at(session) == now - session.created_at >= SESSION_TIMEOUT_MINUTES

Expired(session) == now - session.created_at > SESSION_TIMEOUT_MINUTES

\* get_active_session returns a session (rather than None)
Active(session_id) ==
    /\ session_id # 0
    /\ session_id \in DOMAIN sessions
    /\ ~Expired(sessions[session_id])

\* get_active_session deletes the session it finds expired
Evicts(session_id) ==
    /\ session_id # 0
    /\ session_id \in DOMAIN sessions
    /\ Expired(sessions[session_id])

\* the lookup that finds its session expired drops every expired session
AfterLookup_sweep(f, session_id) ==
    IF Evicts(session_id)
    THEN [s \in {k \in DOMAIN f : ~Expired(sessions[k])} |-> f[s]]
    ELSE f

\* the store (or a history of it) after get_active_session(session_id)
AfterLookup(f, session_id) == IF Evicts(session_id) THEN Remove(f, session_id) ELSE f

RECURSIVE StoredQuestions(_)
StoredQuestions(f) ==
    IF DOMAIN f = {} THEN 0
    ELSE LET id == CHOOSE s \in DOMAIN f : TRUE
         IN  f[id].total_questions + StoredQuestions(Remove(f, id))

\* the store is followed while it holds less than one quiz of the configured
\* size; a session is started only then
StoreHasRoom == StoredQuestions(sessions) < TEST_SIZE

Response(status, error, body) == [status |-> status, error |-> error, body |-> body]

\* the lookup of a live session renews its created_at
LookupOnly_touch(session_id) ==
    /\ sessions' = IF Active(session_id)
                   THEN [sessions EXCEPT ![session_id].created_at = now]
                   ELSE AfterLookup(sessions, session_id)
    /\ accepted' = AfterLookup(accepted, session_id)
    /\ drawn' = AfterLookup(drawn, session_id)
    /\ created' = AfterLookup(created, session_id)

\* a request that only looks its session up
LookupOnly(session_id) ==
    /\ sessions' = AfterLookup(sessions, session_id)
    /\ accepted' = AfterLookup(accepted, session_id)
    /\ drawn' = AfterLookup(drawn, session_id)
    /\ created' = AfterLookup(created, session_id)

---------------------------------------------------------------------------
(* Handlers *)

Init ==
    /\ \E dir \in VocabDirs : vocab_sets = LoadedAtStartup(dir)
    /\ sessions = <<>>
    /\ now = 0
    /\ issued = 0
    /\ accepted = <<>>
    /\ drawn = <<>>
    /\ created = <<>>
    /\ inflight = <<>>
    /\ outcomes = <<>>
    /\ ALL_WORDS = <<>>
    /\ user_sessions = <<>>
    /\ shown = <<>>

\* the topic start_quiz_session generates from
TopicUsed(topic) ==
    LET topics == get_topics(vocab_sets)
    IN  IF get_words(vocab_sets, topic) = <<>>
        THEN (IF topics # <<>> THEN topics[1].id ELSE DefaultDummy)
        ELSE topic

\* total_questions is the configured size, whatever was generated
NewSession_size(prepared_questions, topic, mode) ==
    [prepared_questions |-> prepared_questions,
     correct_count |-> 0,
     total_questions |-> TEST_SIZE,
     answers |-> <<>>,
     created_at |-> now,
     topic |-> topic,
     mode |-> mode]

\* the SessionData start_quiz_session stores
NewSession(prepared_questions, topic, mode) ==
    [prepared_questions |-> prepared_questions,
     correct_count |-> 0,
     total_questions |-> Len(prepared_questions),
     answers |-> <<>>,
     created_at |-> now,
     topic |-> topic,
     mode |-> mode]

\* POST /start
start_quiz_session(topic, mode) ==
    LET new_id == issued + 1
    IN  /\ issued < MaxSessions
        /\ StoreHasRoom
        /\ QuizFactory_create(mode) = "RandomQuizGenerator"
        /\ \E g \in generate(vocab_sets, TopicUsed(topic), TEST_SIZE) :
              /\ sessions' = Put(sessions, new_id, NewSession(g.questions, TopicUsed(topic), mode))
              /\ drawn' = Put(drawn, new_id, g.selected)
              /\ created' = Put(created, new_id, g.questions)
        /\ accepted' = Put(accepted, new_id, <<>>)
        /\ issued' = new_id
        /\ UNCHANGED <<vocab_sets, now, inflight, outcomes, ALL_WORDS, user_sessions, shown>>

\* only the upper end of the index range is checked
IndexValid_upper(index, total_questions) == index < total_questions

\* 0 <= index < session_data.total_questions of get_question_data
IndexValid(index, total_questions) == 0 <= index /\ index < total_questions

\* the options are drawn again when the question is displayed
get_question_data_redraw(index, session_id) ==
    IF ~Active(session_id)
    THEN Response(401, "Session invalid", <<>>)
    ELSE LET session_data == sessions[session_id]
         IN  IF ~IndexValid(index, session_data.total_questions)
             THEN Response(404, "Index error", <<>>)
             ELSE IF \/ ~PyIndexable(session_data.prepared_questions, index)
                     \/ (index < Len(session_data.answers) /\ ~PyIndexable(session_data.answers, index))
             THEN Response(500, "IndexError", <<>>)
             ELSE LET current_q == PyAt(session_data.prepared_questions, index)
                      record == IF index < Len(session_data.answers)
                                THEN <<PyAt(session_data.answers, index)>>
                                ELSE <<>>
                      redrawn == _generate_options(current_q.translation,
                                                   get_words(vocab_sets, session_data.topic))
                  IN  Response(200, "",
                               [word |-> current_q.word,
                                options |-> CHOOSE o \in redrawn : TRUE,
                                current_index |-> index,
                                total_questions |-> session_data.total_questions,
                                answer_record |-> record])

\* GET /api/quiz/{index}: the response.  A subscription that raises is
\* answered 500 by the framework.
get_question_data(index, session_id) ==
    IF ~Active(session_id)
    THEN Response(401, "Session invalid", <<>>)
    ELSE LET session_data == sessions[session_id]
         IN  IF ~IndexValid(index, session_data.total_questions)
             THEN Response(404, "Index error", <<>>)
             ELSE IF \/ ~PyIndexable(session_data.prepared_questions, index)
                     \/ (index < Len(session_data.answers) /\ ~PyIndexable(session_data.answers, index))
             THEN Response(500, "IndexError", <<>>)
             ELSE LET current_q == PyAt(session_data.prepared_questions, index)
                      record == IF index < Len(session_data.answers)
                                THEN <<PyAt(session_data.answers, index)>>
                                ELSE <<>>
                  IN  Response(200, "",
                               [word |-> current_q.word,
                                options |-> current_q.options,
                                current_index |-> index,
                                total_questions |-> session_data.total_questions,
                                answer_record |-> record])

\* GET /api/quiz/{index}: the request
GetQuestionData(index, session_id) ==
    /\ LookupOnly(session_id)
    /\ UNCHANGED <<vocab_sets, now, issued, inflight, outcomes, ALL_WORDS, user_sessions, shown>>

\* the option at position 0 is taken for the right one
IsCorrect_first(user_answer_str, current_q) == user_answer_str = current_q.options[1]

\* is_correct of submit_answer
IsCorrect(user_answer_str, current_q) == user_answer_str = current_q.translation

\* every accepted answer is counted
CountAfter_always(correct_count, is_correct) == correct_count + 1

\* if is_correct: session_data.correct_count += 1
CountAfter(correct_count, is_correct) == IF is_correct THEN correct_count + 1 ELSE correct_count

\* the record is built and returned, and not stored
AnswersAfter_dropped(answers, record) == answers

\* session_data.answers.append(record)
AnswersAfter(answers, record) == Append(answers, record)

\* the check is left out
AlreadyAnswered_never(current_index, answers) == FALSE

\* current_index < len(session_data.answers)
AlreadyAnswered(current_index, answers) == current_index < Len(answers)

\* only the upper end of the option range is checked
OptionValid_upper(selected_option_index, options) == selected_option_index < Len(options)

\* 0 <= selected_option_index < len(current_q.options)
OptionValid(selected_option_index, options) ==
    0 <= selected_option_index /\ selected_option_index < Len(options)

\* the AnswerRecord of a submission that passes the checks of submit_answer
NewRecord(current_q, selected_option_index) ==
    LET user_answer_str == PyAt(current_q.options, selected_option_index)
    IN  [word |-> current_q.word,
         user_answer |-> user_answer_str,
         correct_answer |-> current_q.translation,
         is_correct |-> IsCorrect(user_answer_str, current_q),
         attempted |-> TRUE]

\* POST /submit_answer: the response
submit_answer(selected_option_index, current_index, session_id) ==
    IF ~Active(session_id)
    THEN Response(401, "Invalid session", <<>>)
    ELSE LET session_data == sessions[session_id]
         IN  IF ~(0 <= current_index /\ current_index < session_data.total_questions)
             THEN Response(401, "Invalid session", <<>>)
             ELSE IF AlreadyAnswered(current_index, session_data.answers)
             THEN Response(400, "Already answered", <<>>)
             ELSE LET current_q == session_data.prepared_questions[current_index + 1]
                  IN  IF ~OptionValid(selected_option_index, current_q.options)
                      THEN Response(400, "Invalid option", <<>>)
                      ELSE Response(200, "", NewRecord(current_q, selected_option_index))

\* POST /submit_answer: what the request does to the store
SubmitEffect(selected_option_index, current_index, session_id) ==
    LET response == submit_answer(selected_option_index, current_index, session_id)
    IN  IF response.status # 200
        THEN LookupOnly(session_id)
        ELSE /\ sessions' =
                   [sessions EXCEPT
                       ![session_id].correct_count = CountAfter(@, response.body.is_correct),
                       ![session_id].answers = AnswersAfter(@, response.body)]
             /\ accepted' = [accepted EXCEPT ![session_id] = Append(@, current_index)]
             /\ UNCHANGED <<drawn, created>>

\* POST /submit_answer, handled as soon as it is received
SubmitAnswer(selected_option_index, current_index, session_id) ==
    /\ SubmitEffect(selected_option_index, current_index, session_id)
    /\ UNCHANGED <<vocab_sets, now, issued, inflight, outcomes, ALL_WORDS, user_sessions, shown>>

\* round(x) of Python 3 for x = num / den: to the nearest integer, a tie to the even one
RoundHalfEven(num, den) ==
    LET q == num \div den
        r == num % den
    IN  IF 2 * r < den THEN q
        ELSE IF 2 * r > den THEN q + 1
        ELSE IF q % 2 = 0 THEN q ELSE q + 1

\* GET /api/result: the response
get_result_data(session_id) ==
    IF ~Active(session_id)
    THEN Response(401, "Session invalid", <<>>)
    ELSE LET session_data == sessions[session_id]
             total == session_data.total_questions
             score == IF total > 0
                      THEN RoundHalfEven(100 * session_data.correct_count, total)
                      ELSE 0
         IN  Response(200, "",
                      [correct_count |-> session_data.correct_count,
                       total_questions |-> total,
                       score_percentage |-> score,
                       answers |-> session_data.answers])

\* GET /api/result: the request
GetResultData(session_id) ==
    /\ LookupOnly(session_id)
    /\ UNCHANGED <<vocab_sets, now, issued, inflight, outcomes, ALL_WORDS, user_sessions, shown>>

\* only the cookie is deleted
AfterReset_keep(f, session_id) == f

\* if session_id in sessions: del sessions[session_id], on the store or a history of it
AfterReset(f, session_id) == IF session_id \in DOMAIN f THEN Remove(f, session_id) ELSE f

\* POST /api/reset
reset_session(session_id) ==
    /\ sessions' = AfterReset(sessions, session_id)
    /\ accepted' = AfterReset(accepted, session_id)
    /\ drawn' = AfterReset(drawn, session_id)
    /\ created' = AfterReset(created, session_id)
    /\ UNCHANGED <<vocab_sets, now, issued, inflight, outcomes, ALL_WORDS, user_sessions, shown>>

\* time passes between two requests
Tick ==
    /\ now + TickStep <= MaxNow
    /\ now' = now + TickStep
    /\ UNCHANGED <<vocab_sets, sessions, issued, accepted, drawn, created, inflight, outcomes, ALL_WORDS, user_sessions, shown>>

StartQuiz == \E topic \in TopicInputs, mode \in ModeInputs : start_quiz_session(topic, mode)

GetQuestion == \E index \in IndexInputs, session_id \in SessionIdInputs : GetQuestionData(index, session_id)

Submit ==
    \E selected_option_index \in OptionInputs, current_index \in IndexInputs, session_id \in SessionIdInputs :
        SubmitAnswer(selected_option_index, current_index, session_id)

GetResult == \E session_id \in SessionIdInputs : GetResultData(session_id)

Reset == \E session_id \in SessionIdInputs : reset_session(session_id)

\* the requests of the clients, at one reading of the clock
Next == StartQuiz \/ GetQuestion \/ Submit \/ GetResult \/ Reset

Spec == Init /\ [][Next]_vars

---------------------------------------------------------------------------
(* Requests in flight together.  A group of submit_answer requests for one *)
(* question of one session has been received before any of them is         *)
(* handled; the event loop then runs the handler bodies one at a time, in   *)
(* any order.                                                              *)

ValidOptionInputs == 0..num_options

\* the index has no accepted submission yet
Unanswered(current_index, session_id) ==
    \A p \in DOMAIN accepted[session_id] : accepted[session_id][p] # current_index

ReceiveConcurrent(selected, current_index, session_id) ==
    /\ inflight = <<>>
    /\ Active(session_id)
    /\ 0 <= current_index /\ current_index < sessions[session_id].total_questions
    /\ Unanswered(current_index, session_id)
    /\ inflight' = [k \in DOMAIN selected |->
                       [selected_option_index |-> selected[k],
                        current_index |-> current_index,
                        session_id |-> session_id]]
    /\ outcomes' = <<>>
    /\ UNCHANGED <<vocab_sets, sessions, now, issued, accepted, drawn, created, ALL_WORDS, user_sessions, shown>>

HandleSubmit(k) ==
    LET request == inflight[k]
    IN  /\ SubmitEffect(request.selected_option_index, request.current_index, request.session_id)
        /\ outcomes' = Append(outcomes,
                              [request |-> request,
                               response |-> submit_answer(request.selected_option_index,
                                                          request.current_index,
                                                          request.session_id)])
        /\ inflight' = [j \in 1..(Len(inflight) - 1) |-> IF j < k THEN inflight[j] ELSE inflight[j + 1]]
        /\ UNCHANGED <<vocab_sets, now, issued, ALL_WORDS, user_sessions, shown>>

Receive ==
    \E n \in 2..MaxInflight :
        \E selected \in [1..n -> ValidOptionInputs], current_index \in IndexInputs, session_id \in SessionIdInputs :
            ReceiveConcurrent(selected, current_index, session_id)

Handle == \E k \in DOMAIN inflight : HandleSubmit(k)

NextConc == StartQuiz \/ Receive \/ Handle

SpecConc == Init /\ [][NextConc]_vars

---------------------------------------------------------------------------
(* Question generation on larger pools: sessions are started and nothing   *)
(* else is done to them.                                                   *)

\* "z.csv" with three rows: two words with one translation, and the first row again
DirThree ==
    [exists |-> TRUE,
     files |-> << File(<<122>>, TRUE, TRUE,
                       << [word |-> "Hund", translation |-> "dog"],
                          [word |-> "Koeter", translation |-> "dog"],
                          [word |-> "Hund", translation |-> "dog"] >>) >>]

\* "z.csv" with four rows
DirFour ==
    [exists |-> TRUE,
     files |-> << File(<<122>>, TRUE, TRUE,
                       << [word |-> "Hund", translation |-> "dog"],
                          [word |-> "Katze", translation |-> "cat"],
                          [word |-> "Baum", translation |-> "tree"],
                          [word |-> "Haus", translation |-> "house"] >>) >>]

\* "z.csv" whose translations read like the padding of _generate_options
DirPlaceholder ==
    [exists |-> TRUE,
     files |-> << File(<<122>>, TRUE, TRUE,
                       << [word |-> "Wahl", translation |-> "Option 2"],
                          [word |-> "Hund", translation |-> "dog"] >>) >>]

GenDirs == {DirPair, DirMixed, DirThree, DirFour, DirPlaceholder}

InitGen ==
    /\ \E dir \in GenDirs : vocab_sets = LoadedAtStartup(dir)
    /\ sessions = <<>>
    /\ now = 0
    /\ issued = 0
    /\ accepted = <<>>
    /\ drawn = <<>>
    /\ created = <<>>
    /\ inflight = <<>>
    /\ outcomes = <<>>
    /\ ALL_WORDS = <<>>
    /\ user_sessions = <<>>
    /\ shown = <<>>

NextGen == StartQuiz \/ Reset

SpecGen == InitGen /\ [][NextGen]_vars

---------------------------------------------------------------------------
(* Expiry: the requests of the clients while time passes, on the           *)
(* vocabulary whose sessions hold at most one question.                    *)

InitExpiry ==
    /\ vocab_sets = LoadedAtStartup(DirMixed)
    /\ sessions = <<>>
    /\ now = 0
    /\ issued = 0
    /\ accepted = <<>>
    /\ drawn = <<>>
    /\ created = <<>>
    /\ inflight = <<>>
    /\ outcomes = <<>>
    /\ ALL_WORDS = <<>>
    /\ user_sessions = <<>>
    /\ shown = <<>>

NextExpiry == Next \/ Tick

SpecExpiry == InitExpiry /\ [][NextExpiry]_vars

---------------------------------------------------------------------------
(* The earlier iteration of the quiz (src/main.py): one word list loaded    *)
(* from words.csv and one quiz at a time under the fixed key SESSION_ID.    *)
(* Names that the later iteration also uses carry the suffix _v1.           *)

\* TEST_SIZE of src/main.py is 15; the model runs the same code with a size
\* of 3, so that quizzes of three questions are enumerable
TEST_SIZE_v1 == 3

SESSION_ID == "test_session"

\* words.csv, as [exists, rows]
WordsMissing == [exists |-> FALSE, rows |-> <<>>]

WordsPair ==
    [exists |-> TRUE,
     rows |-> << [word |-> "Hund", translation |-> "dog"],
                 [word |-> "Katze", translation |-> "cat"] >>]

WordsThree ==
    [exists |-> TRUE,
     rows |-> << [word |-> "Hund", translation |-> "dog"],
                 [word |-> "Katze", translation |-> "cat"],
                 [word |-> "Baum", translation |-> "tree"] >>]

WordsFiles == {WordsMissing, WordsPair, WordsThree}

\* load_words: the records of the file, [] when it is not found
load_words(file) == IF file.exists THEN file.rows ELSE <<>>

\* get_test_words: every list random.sample can return
get_test_words(all_words) ==
    {[i \in 1..Min(TEST_SIZE_v1, Len(all_words)) |-> all_words[sel[i]]] :
        sel \in Samples(DOMAIN all_words, Min(TEST_SIZE_v1, Len(all_words)))}

\* [w["translation"] for w in all_words if w["translation"] != correct_translation]
RECURSIVE IncorrectTranslations(_, _)
IncorrectTranslations(correct_translation, all_words) ==
    IF all_words = <<>> THEN <<>>
    ELSE (IF Head(all_words).translation # correct_translation
          THEN <<Head(all_words).translation>>
          ELSE <<>>) \o IncorrectTranslations(correct_translation, Tail(all_words))

\* the padding loop of generate_options: every list it can end with
RECURSIVE PadWrong(_, _)
PadWrong(wrong_options, incorrect_translations) ==
    IF Len(wrong_options) >= 3 THEN {wrong_options}
    ELSE IF incorrect_translations = <<>>
    THEN PadWrong(Append(wrong_options, "Placeholder"), incorrect_translations)
    ELSE UNION {PadWrong(Append(wrong_options, choice), incorrect_translations) :
                   choice \in Range(incorrect_translations)}

\* generate_options of src/main.py: every list of options the call can return
generate_options(correct_translation, all_words) ==
    LET incorrect_translations == IncorrectTranslations(correct_translation, all_words)
        k == Min(3, Len(incorrect_translations))
        sampled == {[i \in 1..k |-> incorrect_translations[sel[i]]] :
                       sel \in Samples(DOMAIN incorrect_translations, k)}
        wrong == UNION {PadWrong(w, incorrect_translations) : w \in sampled}
    IN  UNION {Shuffles(<<correct_translation>> \o w) : w \in wrong}

RedirectResponse(url, query, status_code) ==
    [kind |-> "redirect", url |-> url, query |-> query, status_code |-> status_code, context |-> <<>>]

TemplateResponse(name, context, status_code) ==
    [kind |-> "page", url |-> name, query |-> <<>>, status_code |-> status_code, context |-> <<context>>]

QuizUrl(index) == "/quiz/" \o ToString(index)

\* the form fields and path parameters of the earlier iteration
IndexInputs_v1 == -1..TEST_SIZE_v1

WordInputs_v1 == {"Hund"}

AnswerInputs_v1 == {"dog", "cat"}

\* the feedback query parameter: absent, or "incorrect" as submit_answer sets it
FeedbackInputs == {"None", "incorrect"}

HasQuiz == SESSION_ID \in DOMAIN user_sessions

\* an exception that leaves the handler is answered 500 by the framework
ServerError == [kind |-> "error", url |-> "", query |-> <<>>, status_code |-> 500, context |-> <<>>]

\* the dict start_quiz stores under SESSION_ID
NewQuiz(test_words) ==
    [test_words |-> test_words,
     current_index |-> 0,
     correct_count |-> 0,
     total_questions |-> Len(test_words),
     answers |-> <<>>]

\* GET /: the response
start_quiz_response ==
    IF ALL_WORDS = <<>>
    THEN TemplateResponse("index.html", [error |-> "Word database failed to load or is empty."], 500)
    ELSE RedirectResponse(QuizUrl(0), <<>>, 302)

\* GET /: a new quiz replaces the stored one
start_quiz ==
    /\ IF ALL_WORDS = <<>>
       THEN UNCHANGED <<user_sessions, shown>>
       ELSE /\ \E test_words \in get_test_words(ALL_WORDS) :
                  user_sessions' = Put(user_sessions, SESSION_ID, NewQuiz(test_words))
            /\ shown' = <<>>
    /\ UNCHANGED <<vocab_sets, sessions, now, issued, accepted, drawn, created, inflight, outcomes, ALL_WORDS>>

\* the context of the question page of display_question
QuestionPage(word, options, index, total_questions, feedback, user_ans, correct_ans) ==
    TemplateResponse("index.html",
                     [word |-> word,
                      options |-> options,
                      current_index |-> index,
                      total_questions |-> total_questions,
                      feedback |-> feedback,
                      user_answer |-> user_ans,
                      correct_answer |-> correct_ans],
                     200)

\* GET /quiz/{index}: every response the call can return
display_question(index, feedback, user_ans, correct_ans) ==
    IF ~HasQuiz THEN {RedirectResponse("/", <<>>, 302)}
    ELSE LET session_data == user_sessions[SESSION_ID]
         IN  IF index >= session_data.total_questions
             THEN {IF index = session_data.total_questions
                   THEN RedirectResponse("/result", <<>>, 302)
                   ELSE RedirectResponse("/", <<>>, 302)}
             ELSE IF ~PyIndexable(session_data.test_words, index) THEN {ServerError}
             ELSE LET current_word_data == PyAt(session_data.test_words, index)
                      next_index == Len(session_data.answers)
                  IN  IF feedback = "incorrect"
                      THEN {QuestionPage(current_word_data.word, <<>>, index,
                                         session_data.total_questions, feedback, user_ans, correct_ans)}
                      ELSE IF index < Len(session_data.answers)
                      THEN {IF next_index < session_data.total_questions
                            THEN RedirectResponse(QuizUrl(next_index), <<>>, 302)
                            ELSE RedirectResponse("/result", <<>>, 302)}
                      ELSE {QuestionPage(current_word_data.word, options, index,
                                         session_data.total_questions, "None", "None", "None") :
                               options \in generate_options(current_word_data.translation, ALL_WORDS)}

\* the page shows a question with its options
ShowsOptions(response) ==
    /\ response.kind = "page"
    /\ response.context[1].feedback = "None"

\* the history of question pages after a response to a request for index
ShownAfter(response, index) ==
    IF ~ShowsOptions(response) THEN shown
    ELSE IF shown = <<>>
    THEN <<[index |-> index, options |-> response.context[1].options, identical |-> TRUE]>>
    ELSE IF shown[1].index = index
    THEN <<[shown[1] EXCEPT !.identical = @ /\ response.context[1].options = shown[1].options]>>
    ELSE shown

\* GET /quiz/{index}: the request
DisplayQuestion(index, feedback, user_ans, correct_ans) ==
    /\ \E response \in display_question(index, feedback, user_ans, correct_ans) :
          shown' = ShownAfter(response, index)
    /\ UNCHANGED <<vocab_sets, sessions, now, issued, accepted, drawn, created, inflight, outcomes,
                   ALL_WORDS, user_sessions>>

\* submit_answer of src/main.py reaches the subscription test_words[current_index]
Subscripts_v1(current_index) ==
    /\ HasQuiz
    /\ current_index < user_sessions[SESSION_ID].total_questions

\* POST /submit_answer of src/main.py: the response
submit_answer_v1(word, answer, current_index) ==
    IF ~Subscripts_v1(current_index) THEN RedirectResponse("/", <<>>, 302)
    ELSE LET session_data == user_sessions[SESSION_ID]
         IN  IF ~PyIndexable(session_data.test_words, current_index) THEN ServerError
             ELSE LET correct_translation == PyAt(session_data.test_words, current_index).translation
                      is_correct == answer = correct_translation
                      next_index == current_index + 1
                  IN  IF is_correct
                      THEN (IF next_index >= session_data.total_questions
                            THEN RedirectResponse("/result", <<>>, 303)
                            ELSE RedirectResponse(QuizUrl(next_index), <<>>, 303))
                      ELSE RedirectResponse(QuizUrl(current_index),
                                            <<"incorrect", answer, correct_translation>>, 303)

\* POST /submit_answer of src/main.py: the session dict after the request
QuizAfterSubmit(session_data, word, answer, current_index) ==
    LET correct_translation == PyAt(session_data.test_words, current_index).translation
        is_correct == answer = correct_translation
    IN  IF current_index >= Len(session_data.answers)
        THEN [session_data EXCEPT
                 !.correct_count = IF is_correct THEN @ + 1 ELSE @,
                 !.answers = Append(@, [word |-> word,
                                        user_answer |-> answer,
                                        correct_answer |-> correct_translation,
                                        is_correct |-> is_correct])]
        ELSE session_data

\* POST /submit_answer of src/main.py: the request
SubmitAnswer_v1(word, answer, current_index) ==
    /\ user_sessions' =
          IF Subscripts_v1(current_index)
             /\ PyIndexable(user_sessions[SESSION_ID].test_words, current_index)
          THEN [user_sessions EXCEPT
                   ![SESSION_ID] = QuizAfterSubmit(@, word, answer, current_index)]
          ELSE user_sessions
    /\ UNCHANGED <<vocab_sets, sessions, now, issued, accepted, drawn, created, inflight, outcomes,
                   ALL_WORDS, shown>>

\* int((correct_count / total_questions) * 100): the float product truncated
\* toward zero, which for totals up to 15 is the integer quotient
IntPercent(correct_count, total_questions) == (100 * correct_count) \div total_questions

\* GET /result of src/main.py: the response
show_result ==
    IF ~HasQuiz THEN RedirectResponse("/", <<>>, 302)
    ELSE LET session_data == user_sessions[SESSION_ID]
         IN  IF Len(session_data.answers) < session_data.total_questions
             THEN RedirectResponse("/", <<>>, 302)
             ELSE TemplateResponse("result.html",
                                   [correct_count |-> session_data.correct_count,
                                    total_questions |-> session_data.total_questions,
                                    score_percentage |-> IntPercent(session_data.correct_count,
                                                                    session_data.total_questions),
                                    answers |-> session_data.answers],
                                   200)

\* GET /result of src/main.py: the request
ShowResult ==
    /\ show_result.status_code \in {200, 302}
    /\ UNCHANGED vars

Display ==
    \E index \in IndexInputs_v1, feedback \in FeedbackInputs :
        DisplayQuestion(index, feedback, "None", "None")

Submit_v1 ==
    \E word \in WordInputs_v1, answer \in AnswerInputs_v1, current_index \in IndexInputs_v1 :
        SubmitAnswer_v1(word, answer, current_index)

\* startup_event of src/main.py; the later iteration is not running
InitEarlier ==
    /\ \E file \in WordsFiles : ALL_WORDS = load_words(file)
    /\ user_sessions = <<>>
    /\ shown = <<>>
    /\ vocab_sets = <<>>
    /\ sessions = <<>>
    /\ now = 0
    /\ issued = 0
    /\ accepted = <<>>
    /\ drawn = <<>>
    /\ created = <<>>
    /\ inflight = <<>>
    /\ outcomes = <<>>

NextEarlier == start_quiz \/ Display \/ Submit_v1 \/ ShowResult

SpecEarlier == InitEarlier /\ [][NextEarlier]_vars

---------------------------------------------------------------------------
(* Scoring.  Settings.TEST_SIZE is 15 in the source, so a pool of up to 15  *)
(* rows gives a session with one question per row.  The later iteration     *)
(* starts here with one such session stored, and its questions are answered *)
(* in order; or the earlier iteration runs.                                 *)

\* "z.csv" with the five rows of the default vocabulary
DirFive == [exists |-> TRUE, files |-> <<File(<<122>>, TRUE, TRUE, DummyWords)>>]

\* "z.csv" with eight rows
DirEight ==
    [exists |-> TRUE,
     files |-> << File(<<122>>, TRUE, TRUE,
                       DummyWords \o
                       << [word |-> "Brot", translation |-> "bread"],
                          [word |-> "Buch", translation |-> "book"],
                          [word |-> "Tisch", translation |-> "table"] >>) >>]

\* pools of 0 (the first topic of DirMixed), 3, 5 and 8 rows
ScoreDirs == {DirMixed, DirThree, DirFive, DirEight}

\* the questions generate returns when random.sample keeps the order of the
\* pool; of the option lists the call can return, one is taken
QuizInOrder(word_list) ==
    [p \in DOMAIN word_list |->
        [word |-> word_list[p].word,
         translation |-> word_list[p].translation,
         options |-> CHOOSE o \in _generate_options(word_list[p].translation, word_list) : TRUE]]

\* the session start_quiz_session stores for the first topic listed
InitScoreSession ==
    LET topic == get_topics(vocab_sets)[1].id
        prepared_questions == QuizInOrder(get_words(vocab_sets, topic))
    IN  /\ sessions = Put(<<>>, 1, NewSession(prepared_questions, topic, "standard"))
        /\ issued = 1
        /\ accepted = Put(<<>>, 1, <<>>)
        /\ drawn = Put(<<>>, 1, [p \in DOMAIN prepared_questions |-> p])
        /\ created = Put(<<>>, 1, prepared_questions)

InitScore ==
    \/ /\ \E dir \in ScoreDirs : vocab_sets = LoadedAtStartup(dir)
       /\ now = 0
       /\ InitScoreSession
       /\ inflight = <<>>
       /\ outcomes = <<>>
       /\ ALL_WORDS = <<>>
       /\ user_sessions = <<>>
       /\ shown = <<>>
    \/ InitEarlier

\* the first option position, and the first one judged differently from it
InOrderOptions(current_q) ==
    {i \in 0..(Len(current_q.options) - 1) :
        \A j \in 0..(i - 1) :
            (current_q.options[j + 1] = current_q.translation)
                # (current_q.options[i + 1] = current_q.translation)}

\* the client answers the next open question
SubmitInOrder ==
    \E session_id \in DOMAIN sessions :
        LET session_data == sessions[session_id]
            current_index == Len(session_data.answers)
        IN  /\ current_index < session_data.total_questions
            /\ \E selected_option_index \in InOrderOptions(session_data.prepared_questions[current_index + 1]) :
                   SubmitAnswer(selected_option_index, current_index, session_id)

NextScore == SubmitInOrder \/ GetResult \/ NextEarlier

SpecScore == InitScore /\ [][NextScore]_vars

---------------------------------------------------------------------------
(* Properties *)

NoDuplicates(s) == \A i, j \in DOMAIN s : i # j => s[i] # s[j]

\* C1 (write-once answers): in a live session, a submission for an index
\* that already has an accepted submission is answered "Already answered",
\* whatever the option, and no index is accepted twice.
C1_WriteOnce ==
    \A session_id \in DOMAIN sessions :
        /\ NoDuplicates(accepted[session_id])
        /\ Active(session_id) =>
              \A p \in DOMAIN accepted[session_id], y \in OptionInputs :
                  submit_answer(y, accepted[session_id][p], session_id).error = "Already answered"

\* C2 (dense prefix): in every session the record at position p of answers
\* was produced by a submission for question p and carries that question's
\* word and translation, so no index at or beyond len(answers) is answered.
C2_DensePrefix ==
    \A session_id \in DOMAIN sessions :
        LET session_data == sessions[session_id]
        IN  \A p \in DOMAIN session_data.answers :
                /\ accepted[session_id][p] = p - 1
                /\ session_data.answers[p].word = session_data.prepared_questions[p].word
                /\ session_data.answers[p].correct_answer = session_data.prepared_questions[p].translation

\* C3 (score invariant): in every session correct_count is the number of
\* records of answers whose is_correct is true.
C3_ScoreInvariant ==
    \A session_id \in DOMAIN sessions :
        LET session_data == sessions[session_id]
        IN  session_data.correct_count =
                Cardinality({p \in DOMAIN session_data.answers : session_data.answers[p].is_correct})

\* a session holding a correct and an incorrect record
C3_Witness ==
    \E session_id \in DOMAIN sessions :
        LET answers == sessions[session_id].answers
        IN  /\ \E p \in DOMAIN answers : answers[p].is_correct
            /\ \E p \in DOMAIN answers : ~answers[p].is_correct

\* C4 (concurrent submissions): when the requests of a group received
\* together for one unanswered, in-range index have all been handled, exactly
\* one of them was accepted and every other one was answered
\* "Already answered".
C4_ExactlyOneAccepted ==
    (inflight = <<>> /\ outcomes # <<>>) =>
        /\ Cardinality({k \in DOMAIN outcomes : outcomes[k].response.status = 200}) = 1
        /\ \A k \in DOMAIN outcomes :
               outcomes[k].response.status # 200 => outcomes[k].response.error = "Already answered"

\* C5 (completion gating): for a live session with fewer answers than
\* questions, get_result_data does not return a score summary.
C5_CompletionGating ==
    \A session_id \in DOMAIN sessions :
        (Active(session_id) /\ Len(sessions[session_id].answers) < sessions[session_id].total_questions)
            => get_result_data(session_id).status # 200

\* C6 (frozen questions): for a live session and an in-range index,
\* get_question_data returns the word and the options, in their order, that
\* start_quiz_session stored for that index, whatever was fetched, submitted
\* or rejected since.
C6_FrozenQuestions ==
    \A session_id \in DOMAIN sessions, index \in IndexInputs :
        (Active(session_id) /\ 0 <= index /\ index < Len(created[session_id])) =>
            LET response == get_question_data(index, session_id)
            IN  /\ response.status = 200
                /\ response.body.word = created[session_id][index + 1].word
                /\ response.body.options = created[session_id][index + 1].options

\* a live session whose first question is re-displayed after it was answered
C6_Witness ==
    \E session_id \in DOMAIN sessions :
        /\ Active(session_id)
        /\ Len(sessions[session_id].answers) = sessions[session_id].total_questions
        /\ get_question_data(0, session_id).status = 200
        /\ get_question_data(0, session_id).body.answer_record # <<>>

\* a request that looks session_id up
LookupStep(session_id) ==
    \/ GetResultData(session_id)
    \/ \E index \in IndexInputs : GetQuestionData(index, session_id)
    \/ \E selected_option_index \in OptionInputs, current_index \in IndexInputs :
           SubmitAnswer(selected_option_index, current_index, session_id)

\* the three operations answer that the session is invalid
AnswersInvalid(session_id) ==
    /\ \A index \in IndexInputs : get_question_data(index, session_id).status = 401
    /\ \A selected_option_index \in OptionInputs, current_index \in IndexInputs :
           submit_answer(selected_option_index, current_index, session_id).status = 401
    /\ get_result_data(session_id).status = 401

\* C7 (lazy expiry): a stored session older than the timeout is answered as
\* invalid by get_question_data, submit_answer and get_result_data, and a
\* request that looks it up removes it; an id that was handed out and is no
\* longer stored is answered as invalid and never stored again; a stored
\* session no older than the timeout stays stored across a request that
\* looks it up.  (What the operations answer is looked at in the state a
\* step leaves; no session is stored initially.)
C7_LazyExpiry ==
    [][/\ \A session_id \in 1..issued :
             IF session_id \in DOMAIN sessions
             THEN IF now - sessions[session_id].created_at > SESSION_TIMEOUT_MINUTES
                  THEN session_id \in DOMAIN sessions' => ~LookupStep(session_id)
                  ELSE session_id \notin DOMAIN sessions' => ~LookupStep(session_id)
             ELSE session_id \notin DOMAIN sessions'
       /\ \A session_id \in 1..issued' :
             (\/ session_id \notin DOMAIN sessions'
              \/ now' - sessions'[session_id].created_at > SESSION_TIMEOUT_MINUTES)
                 => AnswersInvalid(session_id)']_vars

\* a session is still stored at the timeout and another one beyond it
C7_Witness ==
    /\ \E session_id \in DOMAIN sessions :
          now - sessions[session_id].created_at > SESSION_TIMEOUT_MINUTES
    /\ \E session_id \in 1..issued : session_id \notin DOMAIN sessions

\* C8 (empty pool on create): no session without questions is stored.
C8_NoEmptySession ==
    \A session_id \in DOMAIN sessions : sessions[session_id].total_questions > 0

\* C9 (option set): the options of every generated question are four
\* strings without a duplicate, the correct translation being one of them
\* exactly once.
C9_OptionSet ==
    \A session_id \in DOMAIN sessions :
        \A p \in DOMAIN sessions[session_id].prepared_questions :
            LET q == sessions[session_id].prepared_questions[p]
            IN  /\ Len(q.options) = num_options + 1
                /\ CountEq(q.options, q.translation) = 1
                /\ NoDuplicates(q.options)

\* C10 (question count and sampling): a started session holds
\* min(TEST_SIZE, pool size) questions, the p-th built from the p-th entry
\* drawn from the pool of its topic, no entry drawn twice, and
\* total_questions is that number.
C10_CountAndSampling ==
    \A session_id \in DOMAIN sessions :
        LET session_data == sessions[session_id]
            pool == get_words(vocab_sets, session_data.topic)
            n == Min(TEST_SIZE, Len(pool))
        IN  /\ Len(session_data.prepared_questions) = n
            /\ session_data.total_questions = n
            /\ Len(drawn[session_id]) = n
            /\ NoDuplicates(drawn[session_id])
            /\ \A p \in 1..n :
                   /\ drawn[session_id][p] \in DOMAIN pool
                   /\ session_data.prepared_questions[p].word = pool[drawn[session_id][p]].word
                   /\ session_data.prepared_questions[p].translation = pool[drawn[session_id][p]].translation

\* a session started on a pool larger than TEST_SIZE whose rows are not all different
C10_Witness ==
    \E session_id \in DOMAIN sessions :
        LET pool == get_words(vocab_sets, sessions[session_id].topic)
        IN  /\ Len(pool) > TEST_SIZE
            /\ sessions[session_id].total_questions = TEST_SIZE
            /\ ~NoDuplicates(pool)

\* the records of answers whose is_correct is true
CorrectRecords(answers) == {p \in DOMAIN answers : answers[p].is_correct}

\* C11 (atomic commit of submit_answer): a step leaves answers and
\* correct_count of every session that stays stored either both unchanged, or
\* answers longer by the one record of a successful submit_answer and
\* correct_count raised by one exactly when that record is correct; a
\* submit_answer that is rejected changes no stored session; and in the state
\* a step leaves, the one any other request sees, correct_count counts the
\* correct records of answers.
C11_AtomicCommit ==
    [][/\ \A session_id \in DOMAIN sessions \cap DOMAIN sessions' :
             LET before == sessions[session_id]
                 after == sessions'[session_id]
             IN  \/ /\ after.answers = before.answers
                    /\ after.correct_count = before.correct_count
                 \/ \E selected_option_index \in OptionInputs, current_index \in IndexInputs :
                        LET response == submit_answer(selected_option_index, current_index, session_id)
                        IN  /\ response.status = 200
                            /\ after.answers = Append(before.answers, response.body)
                            /\ after.correct_count =
                                   before.correct_count + (IF response.body.is_correct THEN 1 ELSE 0)
       /\ \/ \A session_id \in DOMAIN sessions' :
                 session_id \in DOMAIN sessions /\ sessions'[session_id] = sessions[session_id]
          \/ \A selected_option_index \in OptionInputs, current_index \in IndexInputs,
                 session_id \in SessionIdInputs :
                 ~(/\ submit_answer(selected_option_index, current_index, session_id).status # 200
                   /\ SubmitAnswer(selected_option_index, current_index, session_id))
       /\ \A session_id \in DOMAIN sessions' :
             sessions'[session_id].correct_count =
                 Cardinality(CorrectRecords(sessions'[session_id].answers))]_vars

\* a session with a committed correct answer and a question still open
C11_Witness ==
    \E session_id \in DOMAIN sessions :
        /\ sessions[session_id].correct_count >= 1
        /\ Len(sessions[session_id].answers) < sessions[session_id].total_questions

\* C12 (correctness judgement on success): a submit_answer that succeeds
\* for index i and option o returns a record whose word and correct_answer
\* are those of prepared_questions[i], whose user_answer is the option string
\* at o and whose is_correct says that this string equals the translation of
\* prepared_questions[i]; every stored record is such a record for the index
\* it was accepted for; and correct_count has been raised once for each
\* stored record whose user_answer equals that translation, and for no other.
C12_CorrectnessJudgement ==
    \A session_id \in DOMAIN sessions :
        LET session_data == sessions[session_id]
            question(p) == session_data.prepared_questions[accepted[session_id][p] + 1]
        IN  /\ \A selected_option_index \in OptionInputs, current_index \in IndexInputs :
                   LET response == submit_answer(selected_option_index, current_index, session_id)
                       current_q == session_data.prepared_questions[current_index + 1]
                       chosen == current_q.options[selected_option_index + 1]
                   IN  response.status = 200 =>
                           /\ response.body.word = current_q.word
                           /\ response.body.correct_answer = current_q.translation
                           /\ response.body.user_answer = chosen
                           /\ response.body.is_correct = (chosen = current_q.translation)
            /\ \A p \in DOMAIN session_data.answers :
                   /\ session_data.answers[p].word = question(p).word
                   /\ session_data.answers[p].correct_answer = question(p).translation
                   /\ session_data.answers[p].user_answer \in Range(question(p).options)
                   /\ session_data.answers[p].is_correct =
                          (session_data.answers[p].user_answer = question(p).translation)
            /\ session_data.correct_count =
                   Cardinality({p \in DOMAIN session_data.answers :
                                   session_data.answers[p].user_answer = question(p).translation})

\* a session with a stored record, for which one option of an open question
\* would be judged correct and another one incorrect
C12_Witness ==
    \E session_id \in DOMAIN sessions :
        /\ sessions[session_id].answers # <<>>
        /\ \E current_index \in IndexInputs, right, wrong \in OptionInputs :
               /\ submit_answer(right, current_index, session_id).status = 200
               /\ submit_answer(wrong, current_index, session_id).status = 200
               /\ submit_answer(right, current_index, session_id).body.is_correct
               /\ ~submit_answer(wrong, current_index, session_id).body.is_correct

\* C13 (get_question_data index validation): for a live session,
\* get_question_data answers "Index error" for an index below 0 or at or
\* beyond total_questions, and answers with a question exactly for
\* 0 <= index < total_questions, that question being prepared_questions[index]
\* counted from the front.
C13_QuestionIndexValidation ==
    \A session_id \in DOMAIN sessions, index \in IndexInputs :
        Active(session_id) =>
            LET session_data == sessions[session_id]
                response == get_question_data(index, session_id)
            IN  IF 0 <= index /\ index < session_data.total_questions
                THEN /\ response.status = 200
                     /\ response.body.current_index = index
                     /\ response.body.word = session_data.prepared_questions[index + 1].word
                     /\ response.body.options = session_data.prepared_questions[index + 1].options
                ELSE /\ response.status = 404
                     /\ response.error = "Index error"

\* a live session with two questions and a stored answer, so that an index
\* of -1 counted from the end would name a question and a record
C13_Witness ==
    \E session_id \in DOMAIN sessions :
        /\ Active(session_id)
        /\ sessions[session_id].total_questions = 2
        /\ sessions[session_id].answers # <<>>
        /\ PyIndexable(sessions[session_id].prepared_questions, -1)
        /\ get_question_data(-1, session_id).status = 404

\* C14 (submit_answer error taxonomy): for a live session and an index
\* below 0 or at or beyond total_questions, submit_answer is rejected with an
\* outcome other than the one it gives for a request without a stored
\* session; and it gives that outcome only when the session is absent or
\* expired.
C14_SubmitErrorTaxonomy ==
    \A session_id \in SessionIdInputs, selected_option_index \in OptionInputs, current_index \in IndexInputs :
        LET response == submit_answer(selected_option_index, current_index, session_id)
            session_invalid == submit_answer(selected_option_index, current_index, 0)
        IN  /\ (/\ Active(session_id)
                /\ ~(0 <= current_index /\ current_index < sessions[session_id].total_questions))
                   => (response.status # 200 /\ response # session_invalid)
            /\ response = session_invalid => ~Active(session_id)

\* C19 (never-regenerate rule in the earlier iteration): within one quiz,
\* every question page that display_question returns for an index shows the
\* options that the first page for that index showed, in the same order.
C19_NeverRegenerate ==
    \A k \in DOMAIN shown : shown[k].identical

Abs(x) == IF x < 0 THEN -x ELSE x

\* score_percentage is 0 for no questions, and otherwise an integer of 0..100
\* that no other integer is nearer to 100 * correct_count / total_questions
NearestPercent(score_percentage, correct_count, total_questions) ==
    IF total_questions = 0 THEN score_percentage = 0
    ELSE /\ score_percentage \in 0..100
         /\ 2 * Abs(100 * correct_count - score_percentage * total_questions) <= total_questions

\* get_result_data on a live session with every question answered
ResultRounded ==
    \A session_id \in DOMAIN sessions :
        LET session_data == sessions[session_id]
            response == get_result_data(session_id)
        IN  (Active(session_id) /\ Len(session_data.answers) = session_data.total_questions) =>
                /\ response.status = 200
                /\ response.body.correct_count = Cardinality(CorrectRecords(session_data.answers))
                /\ response.body.total_questions = session_data.total_questions
                /\ NearestPercent(response.body.score_percentage,
                                  response.body.correct_count, response.body.total_questions)

\* show_result of the earlier iteration on a quiz with every question answered
ResultRounded_v1 ==
    (HasQuiz /\ Len(user_sessions[SESSION_ID].answers) = user_sessions[SESSION_ID].total_questions) =>
        LET session_data == user_sessions[SESSION_ID]
            response == show_result
        IN  /\ response.status_code = 200
            /\ response.context[1].correct_count = Cardinality(CorrectRecords(session_data.answers))
            /\ response.context[1].total_questions = session_data.total_questions
            /\ NearestPercent(response.context[1].score_percentage,
                              response.context[1].correct_count, response.context[1].total_questions)

\* C15 (result percentage): for a session whose questions are all answered,
\* the result (get_result_data, and show_result of the earlier iteration)
\* carries the number of correct stored answers as correct_count, the number
\* of questions, and as percentage the integer nearest to
\* 100 * correct_count / total, which is 0 when there is no question.
C15_ResultPercentage == ResultRounded /\ ResultRounded_v1

\* every submit_answer on a live session with as many answers as questions
\* is rejected
CompletedRejects(session_id) ==
    (/\ Active(session_id)
     /\ Len(sessions[session_id].answers) = sessions[session_id].total_questions) =>
        \A selected_option_index \in OptionInputs, current_index \in IndexInputs :
            submit_answer(selected_option_index, current_index, session_id).status \in {400, 401}

\* C16 (terminal Completed state): a stored session with as many answers as
\* questions is left exactly as it is by every step that keeps it stored, so
\* its answers and correct_count never change and it never has an open
\* question again; it leaves the store only by reset_session or once it is
\* expired; and while it is live every submit_answer on it, whatever the
\* index and the option, is rejected.  (What submit_answer answers is looked
\* at in the state a step that changes the store leaves; no session is
\* stored initially.)
C16_TerminalCompleted ==
    [][/\ \A session_id \in DOMAIN sessions :
             Len(sessions[session_id].answers) = sessions[session_id].total_questions =>
                 /\ session_id \in DOMAIN sessions' => sessions'[session_id] = sessions[session_id]
                 /\ session_id \notin DOMAIN sessions' =>
                        (reset_session(session_id) \/ Expired(sessions[session_id]))
       /\ sessions' # sessions =>
             \A session_id \in DOMAIN sessions' : CompletedRejects(session_id)']_vars

\* a live session of two questions, both answered, that rejects a further answer
C16_Witness ==
    \E session_id \in DOMAIN sessions :
        /\ Active(session_id)
        /\ sessions[session_id].total_questions = 2
        /\ Len(sessions[session_id].answers) = 2
        /\ submit_answer(0, 1, session_id).error = "Already answered"

\* C17 (reset): what reset_session makes of the store holds no session under
\* the given id and every other session as it was; it is the store itself
\* when the id was absent, and resetting it again gives it again; and the
\* three operations answer that the session is invalid for every id that was
\* handed out and has been reset.  (The clock stands still here, so a
\* session leaves the store by reset_session only.)
C17_Reset ==
    /\ \A session_id \in SessionIdInputs :
          LET once == AfterReset(sessions, session_id)
          IN  /\ DOMAIN once = DOMAIN sessions \ {session_id}
              /\ \A other \in DOMAIN once : once[other] = sessions[other]
              /\ session_id \notin DOMAIN sessions => once = sessions
              /\ AfterReset(once, session_id) = once
    /\ \A session_id \in 1..issued :
          session_id \notin DOMAIN sessions => AnswersInvalid(session_id)

\* the first session has been reset while the second one holds an answer
C17_Witness ==
    /\ issued = 2
    /\ 1 \notin DOMAIN sessions
    /\ 2 \in DOMAIN sessions
    /\ sessions[2].answers # <<>>

\* the step stores, removes or alters the session under session_id
Changed(session_id) ==
    \/ (session_id \in DOMAIN sessions) # (session_id \in DOMAIN sessions')
    \/ /\ session_id \in DOMAIN sessions
       /\ session_id \in DOMAIN sessions'
       /\ sessions'[session_id] # sessions[session_id]

\* the step is a request that carries session_id, or the start_quiz_session
\* that hands it out
AddressedTo(session_id) ==
    \/ session_id \notin DOMAIN sessions /\ issued' = session_id /\ StartQuiz
    \/ reset_session(session_id)
    \/ LookupStep(session_id)

\* C18 (session isolation): a step stores, removes or alters at most one
\* session, the one it is addressed to: the session it creates under a new
\* id, or the one whose id the request carries (get_question_data,
\* submit_answer, get_result_data with their eviction of an expired session,
\* and reset_session); every other session stays stored with its questions,
\* answers, correct_count and created_at unchanged.
C18_SessionIsolation ==
    [][LET changed == {session_id \in DOMAIN sessions \cup DOMAIN sessions' : Changed(session_id)}
       IN  /\ Cardinality(changed) <= 1
           /\ \A session_id \in changed : AddressedTo(session_id)]_vars

\* two sessions are stored, one of them expired and the other live with an answer
C18_Witness ==
    \E one, other \in DOMAIN sessions :
        /\ Expired(sessions[one])
        /\ Active(other)
        /\ sessions[other].answers # <<>>

\* C20 (bounded answers): in every stored session answers holds at most
\* total_questions records, correct_count lies between 0 and the number of
\* records, total_questions is the number of prepared questions, and answers
\* holds one record for each submit_answer that succeeded on the session and
\* none for a rejected one.
C20_BoundedAnswers ==
    \A session_id \in DOMAIN sessions :
        LET session_data == sessions[session_id]
        IN  /\ Len(session_data.answers) <= session_data.total_questions
            /\ 0 <= session_data.correct_count
            /\ session_data.correct_count <= Len(session_data.answers)
            /\ session_data.total_questions = Len(session_data.prepared_questions)
            /\ Len(session_data.answers) = Len(accepted[session_id])

\* a session at both upper bounds: every question answered, every answer correct
C20_Witness ==
    \E session_id \in DOMAIN sessions :
        /\ sessions[session_id].total_questions > 0
        /\ Len(sessions[session_id].answers) = sessions[session_id].total_questions
        /\ sessions[session_id].correct_count = Len(sessions[session_id].answers)

\* what submit_answer never assigns: everything of a session but answers and correct_count
Frame(session_data) ==
    [prepared_questions |-> session_data.prepared_questions,
     total_questions |-> session_data.total_questions,
     created_at |-> session_data.created_at,
     topic |-> session_data.topic,
     mode |-> session_data.mode]

\* C21 (frame of the session operations): every step leaves the questions
\* (words, translations, options and their order), total_questions,
\* created_at, topic and mode of each session that stays stored as they were,
\* so no activity moves the time at which it expires; a step that changes
\* the store is no get_question_data and no get_result_data on a live
\* session; and a submit_answer that succeeds leaves every other session as
\* it was.
C21_Frame ==
    [][/\ \A session_id \in DOMAIN sessions \cap DOMAIN sessions' :
             Frame(sessions'[session_id]) = Frame(sessions[session_id])
       /\ sessions' # sessions =>
             /\ \A session_id \in DOMAIN sessions :
                   Active(session_id) =>
                       /\ ~GetResultData(session_id)
                       /\ \A index \in IndexInputs : ~GetQuestionData(index, session_id)
             /\ \A session_id \in DOMAIN sessions, selected_option_index \in OptionInputs,
                   current_index \in IndexInputs :
                   (/\ submit_answer(selected_option_index, current_index, session_id).status = 200
                    /\ SubmitAnswer(selected_option_index, current_index, session_id)) =>
                       \A other \in DOMAIN sessions \ {session_id} :
                           other \in DOMAIN sessions' /\ sessions'[other] = sessions[other]]_vars

\* a live session, older than the clock's last step, that holds an answer
\* while another session is stored
C21_Witness ==
    \E session_id, other \in DOMAIN sessions :
        /\ other # session_id
        /\ Active(session_id)
        /\ now - sessions[session_id].created_at >= TickStep
        /\ sessions[session_id].answers # <<>>

\* submit_answer rejects every option index outside 0..len(options)-1 given
\* for a question index in range that is not below len(answers)
InvalidOptionRejected(session_id) ==
    Active(session_id) =>
        \A selected_option_index \in OptionInputs, current_index \in IndexInputs :
            LET session_data == sessions[session_id]
                response == submit_answer(selected_option_index, current_index, session_id)
            IN  (/\ 0 <= current_index
                 /\ current_index < session_data.total_questions
                 /\ ~(/\ 0 <= selected_option_index
                      /\ selected_option_index <
                            Len(session_data.prepared_questions[current_index + 1].options))) =>
                    /\ response.status = 400
                    /\ current_index >= Len(session_data.answers) => response.error = "Invalid option"

\* the user_answer of every stored record is an option of the question the
\* record was accepted for
StoredAnswersAreOptions(session_id) ==
    \A p \in DOMAIN sessions[session_id].answers :
        sessions[session_id].answers[p].user_answer \in
            Range(sessions[session_id].prepared_questions[accepted[session_id][p] + 1].options)

\* C22 (option-index validation): a submit_answer whose selected_option_index
\* lies outside 0..len(options)-1, for a question index in range, is rejected
\* with an error ("Invalid option" when the index is not below len(answers))
\* and changes no session; and the user_answer of every stored record is one
\* of the options of the question it was submitted against.  (What
\* submit_answer answers is looked at in the state a step that changes the
\* store leaves; no session is stored initially.)
C22_OptionIndexValidation ==
    [][sessions' # sessions =>
          /\ \A session_id \in DOMAIN sessions, selected_option_index \in OptionInputs,
                current_index \in IndexInputs :
                (/\ Active(session_id)
                 /\ 0 <= current_index
                 /\ current_index < sessions[session_id].total_questions
                 /\ ~(/\ 0 <= selected_option_index
                      /\ selected_option_index <
                            Len(sessions[session_id].prepared_questions[current_index + 1].options))) =>
                    ~SubmitAnswer(selected_option_index, current_index, session_id)
          /\ \A session_id \in DOMAIN sessions' :
                /\ InvalidOptionRejected(session_id)'
                /\ StoredAnswersAreOptions(session_id)']_vars

\* a live session with a stored answer and an open question, for which an
\* option index below 0 and one beyond the last option are rejected
C22_Witness ==
    \E session_id \in DOMAIN sessions :
        LET session_data == sessions[session_id]
            current_index == Len(session_data.answers)
        IN  /\ Active(session_id)
            /\ session_data.answers # <<>>
            /\ current_index < session_data.total_questions
            /\ submit_answer(-1, current_index, session_id).error = "Invalid option"
            /\ submit_answer(num_options + 1, current_index, session_id).error = "Invalid option"

---------------------------------------------------------------------------
(* Progress: the client of a stored session keeps answering the question   *)
(* at index len(answers) with one of its options.                          *)

\* every question of the session has an answer
Completed(session_id) ==
    Len(sessions[session_id].answers) = sessions[session_id].total_questions

\* POST /submit_answer for the first question without an answer, with a valid option
InOrderSubmit(session_id) ==
    /\ Active(session_id)
    /\ ~Completed(session_id)
    /\ LET session_data == sessions[session_id]
           current_index == Len(session_data.answers)
       IN  \E selected_option_index \in OptionInputs :
               /\ OptionValid(selected_option_index,
                              session_data.prepared_questions[current_index + 1].options)
               /\ SubmitAnswer(selected_option_index, current_index, session_id)

\* the requests of Spec, where no client of a session stops answering
\* before its session is complete or gone
SpecProgress ==
    Init /\ [][Next]_vars /\ \A session_id \in 1..MaxSessions : WF_vars(InOrderSubmit(session_id))

\* submit_answer accepts every valid option for index len(answers) of a live incomplete session
InOrderAccepted ==
    \A session_id \in DOMAIN sessions :
        (Active(session_id) /\ ~Completed(session_id)) =>
            LET session_data == sessions[session_id]
                current_index == Len(session_data.answers)
            IN  \A selected_option_index \in OptionInputs :
                    OptionValid(selected_option_index,
                                session_data.prepared_questions[current_index + 1].options) =>
                        submit_answer(selected_option_index, current_index, session_id).status = 200

\* a stored session is complete at some time, unless it is removed before
EventuallyCompleted ==
    \A session_id \in 1..MaxSessions :
        (session_id \in DOMAIN sessions)
            ~> (session_id \notin DOMAIN sessions \/ Completed(session_id))

\* a complete session has had as many submissions accepted as it has questions
CompletedAfterTotal ==
    \A session_id \in DOMAIN sessions :
        Completed(session_id) =>
            Len(accepted[session_id]) = sessions[session_id].total_questions

\* in a complete session every index 0..total-1 was accepted once
EachIndexOnce ==
    \A session_id \in DOMAIN sessions :
        Completed(session_id) =>
            \A current_index \in 0..(sessions[session_id].total_questions - 1) :
                CountEq(accepted[session_id], current_index) = 1

\* C23 (progress to completion): in a live session that is not complete a
\* submit_answer for index len(answers) with a valid option is always
\* accepted; when such submissions are repeated fairly every stored session
\* becomes complete (or leaves the store); and a complete session has had
\* exactly total_questions submissions accepted, one for each of the indices
\* 0..total_questions-1.
C23_ProgressToCompletion ==
    /\ []InOrderAccepted
    /\ EventuallyCompleted
    /\ []CompletedAfterTotal
    /\ []EachIndexOnce

====
